---------------------------- MODULE Spec2Model ----------------------------
(***************************************************************************)
(* A model of the sexditor editing engine: the text buffer and its offset  *)
(* addressing (src/src/editor/text_actions.rs), the cursor motions         *)
(* (src/src/editor/cursor_actions.rs), the key-event state machine         *)
(* (src/src/editor/mod.rs) and the tokenizer                               *)
(* (src/src/editor/text_colour.rs).                                        *)
(*                                                                         *)
(* A Rust String is modelled as a sequence of characters; every character  *)
(* has a UTF-8 width, and every offset the code computes in bytes is       *)
(* computed in bytes here.  A panic of the Rust code (an offset that is no *)
(* character boundary, an arithmetic overflow under overflow checks, a     *)
(* failed expect) is an outcome of the operation, never left out.          *)
(***************************************************************************)
EXTENDS Integers, Sequences, FiniteSets, TLC

VARIABLES
    \* ---- Editor (mod.rs:39-51)
    cursor,          \* Position {x, y}, both u16
    mode,            \* EditorMode
    file_text,       \* String: a sequence of characters
    keyhistory,      \* Vec<KeyCode>; only last() is ever read, the model keeps the last entry
    exit,            \* bool
    command,         \* String typed in Command mode
    theme_path,      \* String
    message_queue,   \* LogMessage
    \* ---- the process and its environment
    panicked,        \* the process has aborted with a panic
    overflow_checks, \* the build's integer overflow checks (on in dev, off in release)
    saves,           \* the save_file calls of the last event, each the content written
    last_op,         \* history: the branch the last event took and the cursor it found
    \* ---- the harness applying the buffer operations to arbitrary arguments
    h_pc, h_pos, h_char, h_orig,
    \* ---- SyntaxRegex::parse (text_colour.rs:147-211)
    tk_rules,        \* the SyntaxRegex (self)
    tk_text,         \* text
    tk_input,        \* input: the remaining slice, as the characters left
    tokens,          \* tokens
    tk_pc            \* "loop" inside the while loop, "done" after return, "panic" if it failed

editorVars == <<cursor, mode, file_text, keyhistory, exit, command, theme_path,
                message_queue, panicked, overflow_checks, saves, last_op>>
harnessVars == <<h_pc, h_pos, h_char, h_orig>>
tokVars == <<tk_rules, tk_text, tk_input, tokens, tk_pc>>
vars == <<editorVars, harnessVars, tokVars>>

---------------------------------------------------------------------------
(* Bounds of the model *)

\* longest buffer, in characters
MaxLen == 3
\* largest cursor row the unbounded motions (Right, Enter) may reach
MaxRow == 4
\* longest command string
MaxCmd == 1
\* largest column / row of a Position handed to the buffer operations by the harness
MaxPos == 4
\* longest line handed to the tokenizer
MaxLine == 3

(* Program constants *)

\* u16: the type of Position.x and Position.y
U16Mod == 65536

---------------------------------------------------------------------------
(* Characters and strings *)

LF == "\n"
CR == "\r"
TAB == "\t"
\* a character of two UTF-8 bytes (U+00E9), written in ASCII
EAcute == "U+E9"

\* char::len_utf8
Width(c) == IF c = EAcute THEN 2 ELSE 1

\* str::len: the length in bytes
RECURSIVE ByteLen(_)
ByteLen(s) == IF s = <<>> THEN 0 ELSE Width(Head(s)) + ByteLen(Tail(s))

NoBoundary == -1
\* str::is_char_boundary(b), as the number of characters before byte b,
\* NoBoundary when b is inside a character or beyond the end
CharIndexAt(s, b) ==
    LET ks == {k \in 0..Len(s) : ByteLen(SubSeq(s, 1, k)) = b}
    IN  IF ks = {} THEN NoBoundary ELSE CHOOSE k \in ks : TRUE

\* the line of str::lines that a segment cut before its "\n" yields: a "\r" before the "\n" is stripped
StripCR(seg) == IF seg /= <<>> /\ seg[Len(seg)] = CR THEN SubSeq(seg, 1, Len(seg) - 1) ELSE seg

\* str::lines: split at "\n", a final "\n" ends the last line and opens no new one,
\* "\r\n" is a line ending too, a bare "\r" is not
RECURSIVE Lines(_)
Lines(s) ==
    IF s = <<>> THEN <<>>
    ELSE LET nl == {i \in 1..Len(s) : s[i] = LF}
         IN  IF nl = {} THEN <<s>>
             ELSE LET i == CHOOSE j \in nl : \A k \in nl : j <= k
                  IN  <<StripCR(SubSeq(s, 1, i - 1))>> \o Lines(SubSeq(s, i + 1, Len(s)))

\* file_text.lines().count()
lineCount(text) == Len(Lines(text))

Position(px, py) == [x |-> px, y |-> py]

---------------------------------------------------------------------------
(* TextAction (text_actions.rs) *)

\* the loop of get_byte_offset from line i on, with the offset accumulated so far
RECURSIVE OffsetLoop(_, _, _, _)
OffsetLoop(lines, i, pos, offset) ==
    IF i > Len(lines) THEN offset
    ELSE IF i - 1 = pos.y
         THEN offset + (IF pos.x < Len(lines[i])
                        THEN ByteLen(SubSeq(lines[i], 1, pos.x))
                        ELSE ByteLen(lines[i]))
         ELSE OffsetLoop(lines, i + 1, pos, offset + ByteLen(lines[i]) + 1)

get_byte_offset(text, pos) == OffsetLoop(Lines(text), 1, pos, 0)

\* the result of an operation on the buffer: the new text, or a panic
Ok(text) == [panic |-> FALSE, text |-> text]
Panic(text) == [panic |-> TRUE, text |-> text]

\* String::insert(idx, ch): panics unless idx is a character boundary of the string
StringInsert(text, idx, c) ==
    LET k == CharIndexAt(text, idx)
    IN  IF k = NoBoundary THEN Panic(text)
        ELSE Ok(SubSeq(text, 1, k) \o <<c>> \o SubSeq(text, k + 1, Len(text)))

\* String::remove(idx): panics unless a character starts at idx
StringRemove(text, idx) ==
    LET k == CharIndexAt(text, idx)
    IN  IF k = NoBoundary \/ k >= Len(text) THEN Panic(text)
        ELSE Ok(SubSeq(text, 1, k) \o SubSeq(text, k + 2, Len(text)))

\* String::pop: removes the last character, nothing from an empty string
StringPop(text) == IF text = <<>> THEN text ELSE SubSeq(text, 1, Len(text) - 1)

insert_char(text, pos, c) == StringInsert(text, get_byte_offset(text, pos), c)

remove_char(text, pos) ==
    LET byte_offset == get_byte_offset(text, pos)
    IN  IF byte_offset >= ByteLen(text)
        THEN Ok(StringPop(text))
        ELSE StringRemove(text, byte_offset)

---------------------------------------------------------------------------
(* Integer arithmetic of the build *)

\* the result of a computation: a value, or a panic
Val(v) == [panic |-> FALSE, v |-> v]
Overflow == [panic |-> TRUE, v |-> 0]

\* a + b on u16: "attempt to add with overflow" under overflow checks, wrapped without
U16Add(a, b, oc) ==
    IF a + b < U16Mod THEN Val(a + b)
    ELSE IF oc THEN Overflow ELSE Val((a + b) % U16Mod)

\* a - b on u16: "attempt to subtract with overflow" under overflow checks, wrapped without
U16Sub(a, b, oc) ==
    IF a - b >= 0 THEN Val(a - b)
    ELSE IF oc THEN Overflow ELSE Val((a - b + U16Mod) % U16Mod)

\* n as u16
AsU16(n) == n % U16Mod

\* u16::try_from(n).unwrap_or_default()
TryU16(n) == IF n < U16Mod THEN n ELSE 0

\* a.saturating_sub(b)
SaturatingSub(a, b) == IF a - b >= 0 THEN a - b ELSE 0

---------------------------------------------------------------------------
(* CursorAction (cursor_actions.rs) *)

\* an end of file one row later
cursor_at_end_of_file_late(text, cur) == cur.y >= lineCount(text) + 2

cursor_at_end_of_file(text, cur) == cur.y >= lineCount(text) + 1

cursor_at_start_of_file(cur) == cur.y = 0

\* the line with index idx, "" (unwrap_or_default) when there is none
LineAt(text, idx) ==
    LET lines == Lines(text)
    IN  IF idx >= 0 /\ idx < Len(lines) THEN lines[idx + 1] ELSE <<>>

line_at_cursor(text, cur) == LineAt(text, cur.y)

\* line_from_cursor(y): the index is cursor.y as usize + y as usize.  A negative y
\* (i16) sign-extends to 2^64 + y, so the sum overflows usize exactly when
\* cursor.y + y >= 0 (a panic under overflow checks, the index cursor.y + y
\* without), and is an index far beyond every line when cursor.y + y < 0.
line_from_cursor(text, cur, y, oc) ==
    IF y < 0 /\ cur.y + y >= 0 /\ oc THEN [panic |-> TRUE, line |-> <<>>]
    ELSE [panic |-> FALSE, line |-> LineAt(text, cur.y + y)]

cursor_at_start_of_line(cur) == cur.x = 0

\* cursor_at_end_of_line with the line's length taken in bytes
cursor_at_end_of_line_bytes(text, cur) == cur.x >= ByteLen(line_at_cursor(text, cur))

cursor_at_end_of_line(text, cur) == cur.x >= Len(line_at_cursor(text, cur))

\* the result of a motion: the new cursor, or a panic
Moved(cur) == [panic |-> FALSE, cursor |-> cur]
MovePanic(cur) == [panic |-> TRUE, cursor |-> cur]

move_to_next_line(cur, oc) ==
    LET y1 == U16Add(cur.y, 1, oc)
    IN  IF y1.panic THEN MovePanic(cur) ELSE Moved(Position(0, y1.v))

move_to_previous_line(text, cur, oc) ==
    LET prev == line_from_cursor(text, cur, -1, oc)
        y1 == U16Sub(cur.y, 1, oc)
    IN  IF prev.panic \/ y1.panic THEN MovePanic(cur)
        ELSE Moved(Position(AsU16(Len(prev.line)), y1.v))

\* ClampColumn with the line's length taken in bytes
ClampColumnBytes(text, cur) ==
    LET new_line_byte_count == AsU16(ByteLen(line_at_cursor(text, cur)))
    IN  IF cur.x > new_line_byte_count
        THEN Position(new_line_byte_count, cur.y)
        ELSE cur

\* the column clamp of Up and Down once cursor.y is set
ClampColumn(text, cur) ==
    LET new_line_char_count == AsU16(Len(line_at_cursor(text, cur)))
    IN  IF cur.x > new_line_char_count
        THEN Position(new_line_char_count, cur.y)
        ELSE cur

MoveUp(text, cur, oc) ==
    IF cursor_at_start_of_file(cur) THEN Moved(cur)
    ELSE Moved(ClampColumn(text, Position(cur.x, cur.y - 1)))

\* MoveDown with the end-of-file test one row late
MoveDownLateStop(text, cur, oc) ==
    IF cur.y > lineCount(text) + 1 THEN Moved(cur)
    ELSE LET y1 == U16Add(cur.y, 1, oc)
         IN  IF y1.panic THEN MovePanic(cur)
             ELSE Moved(ClampColumn(text, Position(cur.x, y1.v)))

MoveDown(text, cur, oc) ==
    IF cursor_at_end_of_file(text, cur) THEN Moved(cur)
    ELSE LET y1 == U16Add(cur.y, 1, oc)
         IN  IF y1.panic THEN MovePanic(cur)
             ELSE Moved(ClampColumn(text, Position(cur.x, y1.v)))

MoveLeft(text, cur, oc) ==
    IF cursor_at_start_of_file(cur) /\ cursor_at_start_of_line(cur) THEN Moved(cur)
    ELSE IF cursor_at_start_of_line(cur) THEN move_to_previous_line(text, cur, oc)
    ELSE Moved(Position(cur.x - 1, cur.y))

MoveRight(text, cur, oc) ==
    IF cursor_at_end_of_line(text, cur) THEN move_to_next_line(cur, oc)
    ELSE LET x1 == U16Add(cur.x, 1, oc)
         IN  IF x1.panic THEN MovePanic(cur) ELSE Moved(Position(x1.v, cur.y))

move_cursor(text, cur, dir, oc) ==
    CASE dir = "Up"    -> MoveUp(text, cur, oc)
      [] dir = "Down"  -> MoveDown(text, cur, oc)
      [] dir = "Left"  -> MoveLeft(text, cur, oc)
      [] dir = "Right" -> MoveRight(text, cur, oc)

\* the Unicode general category the motion pattern tells apart: Z separators,
\* P punctuation, N numbers, L letters, S symbols; "C" is a character of no such class
Category(c) ==
    CASE c = " " -> "Z"
      [] c \in {".", "(", "@"} -> "P"
      [] c \in {"9"} -> "N"
      [] c \in {"=", "$"} -> "S"
      [] c \in {CR, LF, TAB} -> "C"
      [] OTHER -> "L"

\* Regex::find of (\p{Z}+|\p{P}+|\p{N}+|\p{L}+|\p{S}+) in s: the leftmost character
\* of one of the classes starts the match, which runs while the class stays the
\* same; <<start, end>> in characters (0-based, end exclusive), <<>> for no match
WordPatFind(s) ==
    LET starts == {i \in 1..Len(s) : Category(s[i]) /= "C"}
    IN  IF starts = {} THEN <<>>
        ELSE LET i == CHOOSE j \in starts : \A k \in starts : j <= k
                 ends == {e \in i..Len(s) : \A k \in i..e : Category(s[k]) = Category(s[i])}
                 e == CHOOSE m \in ends : \A k \in ends : k <= m
             IN  <<i - 1, e>>

\* the character index of the cursor column in the line: nth(x), the line's end beyond it
ColumnInLine(line, x) == IF x < Len(line) THEN x ELSE Len(line)

RECURSIVE Reverse(_)
Reverse(s) == IF s = <<>> THEN <<>> ELSE Reverse(Tail(s)) \o <<Head(s)>>

\* move_to_end_of_pat that advances by the bytes of the slice up to the match's end
move_to_end_of_pat_bytes(text, cur, oc) ==
    LET line == line_at_cursor(text, cur)
        start == ColumnInLine(line, cur.x)
        slice == SubSeq(line, start + 1, Len(line))
        mat == WordPatFind(slice)
    IN  IF mat = <<>> THEN Moved(cur)
        ELSE LET x1 == U16Add(cur.x, AsU16(ByteLen(SubSeq(slice, 1, mat[2]))), oc)
             IN  IF x1.panic THEN MovePanic(cur) ELSE Moved(Position(x1.v, cur.y))

move_to_end_of_pat(text, cur, oc) ==
    LET line == line_at_cursor(text, cur)
        start == ColumnInLine(line, cur.x)
        slice == SubSeq(line, start + 1, Len(line))
        mat == WordPatFind(slice)
    IN  IF mat = <<>> THEN Moved(cur)
        ELSE LET x1 == U16Add(cur.x, AsU16(mat[2]), oc)
             IN  IF x1.panic THEN MovePanic(cur) ELSE Moved(Position(x1.v, cur.y))

move_to_start_of_pat(text, cur) ==
    LET line == line_at_cursor(text, cur)
        before == SubSeq(line, 1, ColumnInLine(line, cur.x))
        reversed == Reverse(before)
        mat == WordPatFind(reversed)
    IN  IF mat = <<>> THEN Moved(cur)
        ELSE Moved(Position(SaturatingSub(cur.x, AsU16(mat[2])), cur.y))

---------------------------------------------------------------------------
(* SyntaxRegex (text_colour.rs) *)

\* the characters of a line handed to parse: lower-case letters, an upper-case
\* letter, a digit, a blank, a delimiter, an operator, a character no rule of
\* the embedded rule sets knows, and a two-byte letter
TokChars == {"f", "n", "S", "9", " ", "(", "=", "@", EAcute}
Lower == {"f", "n"}
Upper == {"S"}
Digit == {"9"}
\* [A-Za-z0-9_] within TokChars
AsciiWord == Lower \cup Upper \cup Digit
\* \w of a Unicode-aware regex within TokChars: the assertion \b tells these from the rest
IsWordChar(c) == c \in AsciiWord \cup {EAcute}

\* A pattern is an ordered alternation; an alternative is an ordered choice of
\* literal heads, a greedy run of a character class after the head, and an
\* assertion at the end: none, "wb" (\b) or "la" (a lookahead (?=[la])).
Alt(lits, run, asrt, la) == [lits |-> lits, run |-> run, asrt |-> asrt, la |-> la]
Pat(anchored, alts) == [anchored |-> anchored, alts |-> alts]
\* a pattern no text of TokChars matches
Never == Pat(TRUE, <<>>)
\* the one-character strings of a class, as literal heads
RECURSIVE Singles(_)
Singles(S) ==
    IF S = {} THEN <<>>
    ELSE LET c == CHOOSE x \in S : TRUE IN <<<<c>>>> \o Singles(S \ {c})

MaxOf(S) == CHOOSE m \in S : \A k \in S : k <= m
MinOf(S) == CHOOSE m \in S : \A k \in S : m <= k

\* the assertion of alt at position p of s (p characters lie before it)
AssertOk(alt, s, p) ==
    CASE alt.asrt = "wb" ->
             (p >= 1 /\ IsWordChar(s[p])) /= (p < Len(s) /\ IsWordChar(s[p + 1]))
      [] alt.asrt = "la" -> p < Len(s) /\ s[p + 1] \in alt.la
      [] OTHER -> TRUE

\* the end of the match of head lit of alt at position i of s: the head, the
\* longest run after it that the assertion accepts (backtracking); -1 for none
LitEnd(alt, lit, s, i) ==
    IF ~(i + Len(lit) <= Len(s) /\ SubSeq(s, i + 1, i + Len(lit)) = lit) THEN -1
    ELSE LET j == i + Len(lit)
             runs == {k \in 0..(Len(s) - j) : \A m \in 1..k : s[j + m] \in alt.run}
             ks == {k \in runs : AssertOk(alt, s, j + k)}
         IN  IF ks = {} THEN -1 ELSE j + MaxOf(ks)

\* the first head in order that matches decides
AltEnd(alt, s, i) ==
    LET ok == {n \in 1..Len(alt.lits) : LitEnd(alt, alt.lits[n], s, i) /= -1}
    IN  IF ok = {} THEN -1 ELSE LitEnd(alt, alt.lits[MinOf(ok)], s, i)

\* the first alternative in order that matches decides
PatEndAt(pat, s, i) ==
    LET ok == {n \in 1..Len(pat.alts) : AltEnd(pat.alts[n], s, i) /= -1}
    IN  IF ok = {} THEN -1 ELSE AltEnd(pat.alts[MinOf(ok)], s, i)

NoMatch == [start |-> -1, end |-> -1]

\* Regex::find(s): the leftmost match, its start and end in bytes; an anchored
\* pattern (^) matches at the start of s only
RegexFind(pat, s) ==
    LET starts == IF pat.anchored THEN {0} ELSE 0..Len(s)
        hits == {i \in starts : PatEndAt(pat, s, i) /= -1}
    IN  IF hits = {} THEN NoMatch
        ELSE LET i == MinOf(hits)
             IN  [start |-> ByteLen(SubSeq(s, 1, i)),
                  end |-> ByteLen(SubSeq(s, 1, PatEndAt(pat, s, i)))]

\* RUST_SYNTAX, as far as TokChars spells it: the keyword fn, the literal
\* [0-9]+, the type [A-Z][A-Za-z0-9_]*, the operators == and =, the delimiter (
RustSyntax ==
    [keyword    |-> Pat(TRUE, <<Alt(<<<<"f", "n">>>>, {}, "wb", {})>>),
     identifier |-> Pat(TRUE, <<Alt(Singles(Lower \cup Upper), AsciiWord, "none", {})>>),
     delimiters |-> Pat(TRUE, <<Alt(<<<<"(">>>>, {}, "none", {})>>),
     literal    |-> Pat(TRUE, <<Alt(Singles(Digit), Digit, "none", {})>>),
     types      |-> Pat(TRUE, <<Alt(Singles(Upper), AsciiWord, "none", {})>>),
     extra      |-> Pat(TRUE, <<Alt(<<<<"=", "=">>, <<"=">>>>, {}, "none", {})>>),
     function   |-> Pat(TRUE, <<Alt(Singles(Lower), Lower \cup Digit, "la", {"("})>>),
     comment    |-> Never]

\* TEST_SYNTAX of the tests: the literal "" and the comment never match, the
\* function rule is ^[98]
TestSyntax ==
    [RustSyntax EXCEPT !.literal = Never,
                       !.function = Pat(TRUE, <<Alt(Singles(Digit), {}, "none", {})>>)]

\* a rule set of a syntax file whose extra rule is ^=* : it matches the empty string
StarSyntax ==
    [RustSyntax EXCEPT !.extra = Pat(TRUE, <<Alt(<<<<>>>>, {"="}, "none", {})>>)]

\* a rule set of a syntax file whose only matching rule, identifier, is [fnS]+
\* without the anchor: its match may start after offset 0
UnanchoredSyntax ==
    [keyword |-> Never, identifier |-> Pat(FALSE, <<Alt(Singles(Lower \cup Upper), Lower \cup Upper, "none", {})>>),
     delimiters |-> Never, literal |-> Never, types |-> Never, extra |-> Never,
     function |-> Never, comment |-> Never]

RuleSets == {RustSyntax, TestSyntax, StarSyntax, UnanchoredSyntax}

---------------------------------------------------------------------------
(* Editor (mod.rs) *)

\* strings of at most n characters of S
BoundedSeq(S, n) == UNION {[1..k -> S] : k \in 0..n}

\* the characters of a loaded file
FileChars == {"q", EAcute, LF, CR}
\* the characters typed in Insert mode: the quit key and a two-byte character
TypedChars == {"q", EAcute}
\* the characters typed in Command mode
CmdChars == {"q", "w", "x", "e", " "}

\* KeyCode
KChar(c) == [code |-> "Char", c |-> c]
KEnter == [code |-> "Enter", c |-> ""]
KEsc == [code |-> "Esc", c |-> ""]
KBackspace == [code |-> "Backspace", c |-> ""]
KTab == [code |-> "Tab", c |-> ""]

\* LogMessage
Info(msg) == [level |-> "Info", msg |-> msg]
Error(msg) == [level |-> "Error", msg |-> msg]

\* Editor::new: Editor::default() and open_new_file, which loads the file's text
\* (an empty buffer for no path or an unreadable file)
EditorNew(text) ==
    /\ cursor = Position(0, 0)
    /\ mode = "Normal"
    /\ file_text = text
    /\ keyhistory = <<>>
    /\ exit = FALSE
    /\ command = <<>>
    /\ theme_path = <<>>
    /\ message_queue = Info(<<>>)
    /\ panicked = FALSE
    /\ saves = <<>>
    /\ last_op = [op |-> "new", was |-> Position(0, 0)]

\* the harness and the tokenizer at rest
HarnessIdle == h_pc = "idle" /\ h_pos = Position(0, 0) /\ h_char = "" /\ h_orig = <<>>
TokIdle == tk_rules = RustSyntax /\ tk_text = <<>> /\ tk_input = <<>> /\ tokens = <<>> /\ tk_pc = "idle"

Init ==
    /\ \E text \in BoundedSeq(FileChars, MaxLen) : EditorNew(text)
    /\ overflow_checks \in BOOLEAN
    /\ HarnessIdle
    /\ TokIdle

\* self, as the handler finds it
Self ==
    [cursor |-> cursor, mode |-> mode, file_text |-> file_text, exit |-> exit,
     command |-> command, theme_path |-> theme_path, message_queue |-> message_queue,
     saves |-> <<>>, panic |-> FALSE]

\* Editor::run: the loop handles events while exit is unset (and the process lives)
Running == ~exit /\ ~panicked

\* the bounds the model keeps the state within
InBounds(new) ==
    /\ IF new.file_text = file_text THEN TRUE ELSE Len(new.file_text) <= MaxLen
    /\ new.cursor.y <= MaxRow
    /\ Len(new.command) <= MaxCmd

\* handle_key_event leaves self as new and pushes the key (mod.rs:228), unless it panicked
Handled(key, op, new) ==
    /\ Running
    /\ InBounds(new)
    /\ cursor' = new.cursor
    /\ mode' = new.mode
    /\ file_text' = new.file_text
    /\ exit' = new.exit
    /\ command' = new.command
    /\ theme_path' = new.theme_path
    /\ message_queue' = new.message_queue
    /\ saves' = new.saves
    /\ panicked' = new.panic
    /\ keyhistory' = IF new.panic THEN keyhistory ELSE <<key>>
    /\ last_op' = [op |-> op, was |-> cursor]
    /\ UNCHANGED <<overflow_checks, harnessVars, tokVars>>

\* self after a motion
WithMove(ed, m) == [ed EXCEPT !.cursor = m.cursor, !.panic = m.panic]

\* self after an operation on the buffer
WithText(ed, r) == [ed EXCEPT !.file_text = r.text, !.panic = r.panic]

\* ---- Normal mode (mod.rs:136-193)

KeyQ == mode = "Normal" /\ Handled(KChar("q"), "q", [Self EXCEPT !.exit = TRUE])

KeyI == mode = "Normal" /\ Handled(KChar("i"), "i", [Self EXCEPT !.mode = "Insert"])

KeyV == mode = "Normal" /\ Handled(KChar("v"), "v", [Self EXCEPT !.mode = "Visual"])

KeyColon == mode = "Normal" /\ Handled(KChar(":"), ":", [Self EXCEPT !.mode = "Command"])

KeyK ==
    /\ mode = "Normal"
    /\ Handled(KChar("k"),
               IF cursor_at_start_of_file(cursor) THEN "Up:at_start" ELSE "Up:moved",
               WithMove(Self, move_cursor(file_text, cursor, "Up", overflow_checks)))

KeyJ ==
    /\ mode = "Normal"
    /\ Handled(KChar("j"),
               IF cursor_at_end_of_file(file_text, cursor) THEN "Down:at_end" ELSE "Down:moved",
               WithMove(Self, move_cursor(file_text, cursor, "Down", overflow_checks)))

KeyH ==
    /\ mode = "Normal"
    /\ Handled(KChar("h"),
               IF cursor.x = 0 /\ cursor.y = 0 THEN "Left:at_origin"
               ELSE IF cursor.x = 0 THEN "Left:previous_line" ELSE "Left:dec",
               WithMove(Self, move_cursor(file_text, cursor, "Left", overflow_checks)))

KeyL ==
    /\ mode = "Normal"
    /\ Handled(KChar("l"),
               IF cursor_at_end_of_line(file_text, cursor) THEN "Right:next_line" ELSE "Right:inc",
               WithMove(Self, move_cursor(file_text, cursor, "Right", overflow_checks)))

KeyD == mode = "Normal" /\ Handled(KChar("d"), "d", WithText(Self, remove_char(file_text, cursor)))

\* 'o': a line feed at column len+1 of the cursor's line, then Down, then Insert mode
OpenBelow(ed, oc) ==
    LET x1 == U16Add(TryU16(ByteLen(line_at_cursor(ed.file_text, ed.cursor))), 1, oc)
    IN  IF x1.panic THEN [ed EXCEPT !.panic = TRUE]
        ELSE LET r == insert_char(ed.file_text, Position(x1.v, ed.cursor.y), LF)
             IN  IF r.panic THEN [ed EXCEPT !.panic = TRUE]
                 ELSE LET m == move_cursor(r.text, ed.cursor, "Down", oc)
                      IN  IF m.panic THEN [ed EXCEPT !.file_text = r.text, !.panic = TRUE]
                          ELSE [ed EXCEPT !.file_text = r.text, !.cursor = m.cursor,
                                          !.mode = "Insert"]

KeyO == mode = "Normal" /\ Handled(KChar("o"), "o", OpenBelow(Self, overflow_checks))

\* 'O': a line feed at column len+1 of the line before the cursor's, row cursor.y - 1,
\* then Insert mode; the cursor stays
OpenAbove(ed, oc) ==
    LET prev == line_from_cursor(ed.file_text, ed.cursor, -1, oc)
        x1 == U16Add(TryU16(ByteLen(prev.line)), 1, oc)
        y1 == U16Sub(ed.cursor.y, 1, oc)
    IN  IF prev.panic \/ x1.panic \/ y1.panic THEN [ed EXCEPT !.panic = TRUE]
        ELSE LET r == insert_char(ed.file_text, Position(x1.v, y1.v), LF)
             IN  IF r.panic THEN [ed EXCEPT !.panic = TRUE]
                 ELSE [ed EXCEPT !.file_text = r.text, !.mode = "Insert"]

KeyBigO == mode = "Normal" /\ Handled(KChar("O"), "O", OpenAbove(Self, overflow_checks))

\* 'A': the column is the byte length of the cursor's line
AppendAtEnd(ed) ==
    [ed EXCEPT !.cursor = Position(TryU16(ByteLen(line_at_cursor(ed.file_text, ed.cursor))),
                                   ed.cursor.y),
               !.mode = "Insert"]

KeyA == mode = "Normal" /\ Handled(KChar("A"), "A", AppendAtEnd(Self))

KeyZero ==
    /\ mode = "Normal"
    /\ Handled(KChar("0"), "0", [Self EXCEPT !.cursor = Position(0, cursor.y)])

KeyE ==
    /\ mode = "Normal"
    /\ Handled(KChar("e"), "e",
               WithMove(Self, move_to_end_of_pat(file_text, cursor, overflow_checks)))

KeyB ==
    /\ mode = "Normal"
    /\ Handled(KChar("b"), "b", WithMove(Self, move_to_start_of_pat(file_text, cursor)))

\* 'g' that goes to (0,0) whatever the last key of the history is
GoToStartEveryPress(ed, history) == [ed EXCEPT !.cursor = Position(0, 0)]

\* 'g': to (0,0) when the last key of the history is 'g' too
GoToStart(ed, history) ==
    IF history /= <<>> /\ history[Len(history)] = KChar("g")
    THEN [ed EXCEPT !.cursor = Position(0, 0)]
    ELSE ed

KeyG ==
    /\ mode = "Normal"
    /\ Handled(KChar("g"),
               IF keyhistory /= <<>> /\ keyhistory[Len(keyhistory)] = KChar("g")
               THEN "g:second" ELSE "g:first",
               GoToStart(Self, keyhistory))

\* any other key in Normal mode: an unbound character, or a key that is no character
NormalOther ==
    /\ mode = "Normal"
    /\ \E key \in {KChar("z"), KEsc} : Handled(key, "Normal:other", Self)

\* ---- Visual mode (mod.rs:194-197)

VisualLeave ==
    /\ mode = "Visual"
    /\ \E key \in {KChar("v"), KEsc} : Handled(key, "Visual:leave", [Self EXCEPT !.mode = "Normal"])

VisualOther ==
    /\ mode = "Visual"
    /\ \E key \in {KChar("q"), KEnter} : Handled(key, "Visual:other", Self)

\* ---- Insert mode (mod.rs:198-219)

\* a Char(c) of Insert mode that takes 'q' for the quit key
TypeCharQuits(ed, c, oc) == IF c = "q" THEN [ed EXCEPT !.exit = TRUE] ELSE ed

\* Char(c): insert_char at the cursor, then move_cursor(Right)
TypeChar(ed, c, oc) ==
    LET r == insert_char(ed.file_text, ed.cursor, c)
    IN  IF r.panic THEN [ed EXCEPT !.panic = TRUE]
        ELSE LET m == move_cursor(r.text, ed.cursor, "Right", oc)
             IN  [ed EXCEPT !.file_text = r.text, !.cursor = m.cursor, !.panic = m.panic]

InsertChar ==
    /\ mode = "Insert"
    /\ \E c \in TypedChars : Handled(KChar(c), "Insert:char", TypeChar(Self, c, overflow_checks))

\* Enter: a line feed at the cursor, the cursor to column 0 of the next row
TypeEnter(ed, oc) ==
    LET r == insert_char(ed.file_text, ed.cursor, LF)
    IN  IF r.panic THEN [ed EXCEPT !.panic = TRUE]
        ELSE LET y1 == U16Add(ed.cursor.y, 1, oc)
             IN  IF y1.panic THEN [ed EXCEPT !.file_text = r.text, !.panic = TRUE]
                 ELSE [ed EXCEPT !.file_text = r.text, !.cursor = Position(0, y1.v)]

InsertEnter == mode = "Insert" /\ Handled(KEnter, "Insert:enter", TypeEnter(Self, overflow_checks))

\* Backspace: remove_char at column cursor.x - 1, then move_cursor(Left)
TypeBackspace(ed, oc) ==
    LET x1 == U16Sub(ed.cursor.x, 1, oc)
    IN  IF x1.panic THEN [ed EXCEPT !.panic = TRUE]
        ELSE LET r == remove_char(ed.file_text, Position(x1.v, ed.cursor.y))
             IN  IF r.panic THEN [ed EXCEPT !.panic = TRUE]
                 ELSE LET m == move_cursor(r.text, ed.cursor, "Left", oc)
                      IN  [ed EXCEPT !.file_text = r.text, !.cursor = m.cursor,
                                     !.panic = m.panic]

InsertBackspace ==
    /\ mode = "Insert"
    /\ Handled(KBackspace, "Insert:backspace", TypeBackspace(Self, overflow_checks))

InsertEsc == mode = "Insert" /\ Handled(KEsc, "Insert:esc", [Self EXCEPT !.mode = "Normal"])

InsertOther == mode = "Insert" /\ Handled(KTab, "Insert:other", Self)

\* ---- Command mode (mod.rs:220-226)

IsWhitespace(c) == c \in {" ", LF, CR}

\* str::trim
RECURSIVE TrimStart(_)
TrimStart(s) == IF s /= <<>> /\ IsWhitespace(Head(s)) THEN TrimStart(Tail(s)) ELSE s
Trim(s) == Reverse(TrimStart(Reverse(TrimStart(s))))

ThemePrefix == <<"t", "h", "e", "m", "e", " ">>
StartsWith(s, prefix) == Len(s) >= Len(prefix) /\ SubSeq(s, 1, Len(prefix)) = prefix

\* set_theme(Some(name)): theme/<name>.toml
set_theme(ed, name) ==
    [ed EXCEPT !.theme_path = <<"t", "h", "e", "m", "e", "/">> \o name \o <<".", "t", "o", "m", "l">>]

\* an end_command that leaves the command as typed
end_command_keeps_command(ed) == [ed EXCEPT !.mode = "Normal"]

end_command(ed) == [ed EXCEPT !.mode = "Normal", !.command = <<>>]

\* a save_file that writes the buffer twice
save_file_twice(ed, io_ok) ==
    IF io_ok THEN [ed EXCEPT !.saves = Append(Append(ed.saves, ed.file_text), ed.file_text)]
    ELSE [ed EXCEPT !.panic = TRUE]

\* save_file: File::create and write_all, each with expect: io_ok or a panic
save_file(ed, io_ok) ==
    IF io_ok THEN [ed EXCEPT !.saves = Append(ed.saves, ed.file_text)]
    ELSE [ed EXCEPT !.panic = TRUE]

execute_command(ed, io_ok) ==
    LET cmd == Trim(ed.command)
        done == CASE cmd = <<"q">> -> [ed EXCEPT !.exit = TRUE]
                  [] cmd = <<"w">> -> save_file(ed, io_ok)
                  [] cmd = <<"x">> -> LET s == save_file(ed, io_ok)
                                      IN  IF s.panic THEN s ELSE [s EXCEPT !.exit = TRUE]
                  [] cmd = <<"e">> -> [ed EXCEPT !.message_queue = Error(<<"a", "a", "a", "a">>)]
                  [] OTHER -> IF StartsWith(cmd, ThemePrefix)
                              THEN set_theme(ed, SubSeq(cmd, Len(ThemePrefix) + 1, Len(cmd)))
                              ELSE ed
    IN  IF done.panic THEN done ELSE end_command(done)

CommandEnter ==
    /\ mode = "Command"
    /\ \E io_ok \in BOOLEAN : Handled(KEnter, "Command:enter", execute_command(Self, io_ok))

\* an Esc of Command mode that goes back to Normal mode only
CommandEscToNormalOnly ==
    mode = "Command" /\ Handled(KEsc, "Command:esc", [Self EXCEPT !.mode = "Normal"])

CommandEsc == mode = "Command" /\ Handled(KEsc, "Command:esc", end_command(Self))

CommandChar ==
    /\ mode = "Command"
    /\ \E c \in CmdChars :
           Handled(KChar(c), "Command:char", [Self EXCEPT !.command = Append(command, c)])

CommandBackspace ==
    /\ mode = "Command"
    /\ Handled(KBackspace, "Command:backspace", [Self EXCEPT !.command = StringPop(command)])

CommandOther == mode = "Command" /\ Handled(KTab, "Command:other", Self)

Next ==
    \/ KeyQ \/ KeyI \/ KeyV \/ KeyColon
    \/ KeyK \/ KeyJ \/ KeyH \/ KeyL
    \/ KeyD \/ KeyO \/ KeyBigO \/ KeyA \/ KeyZero
    \/ KeyE \/ KeyB \/ KeyG \/ NormalOther
    \/ VisualLeave \/ VisualOther
    \/ InsertChar \/ InsertEnter \/ InsertBackspace \/ InsertEsc \/ InsertOther
    \/ CommandEnter \/ CommandEsc \/ CommandChar \/ CommandBackspace \/ CommandOther

Spec == Init /\ [][Next]_vars

---------------------------------------------------------------------------
(* The cursor motions over a fixed buffer: the keys k, j, h, l, e, b of     *)
(* Normal mode from cursor (0,0), none of which changes the buffer or mode. *)

\* the characters of the fixed buffer: a letter, a two-byte letter, a blank, a
\* punctuation mark, a control character (of no class of the motion pattern)
\* and the line feed
MotionChars == {"q", EAcute, " ", ".", TAB, LF}
\* a line of letters and a blank, longer than MaxLen
ExampleLine == <<"a", "b", " ", "c", "d">>

InitMotion ==
    /\ \E text \in BoundedSeq(MotionChars, MaxLen) \cup {ExampleLine} : EditorNew(text)
    /\ overflow_checks \in BOOLEAN
    /\ HarnessIdle
    /\ TokIdle

NextMotion == KeyK \/ KeyJ \/ KeyH \/ KeyL \/ KeyE \/ KeyB

SpecMotion == InitMotion /\ [][NextMotion]_vars

\* the vertical motions alone: the keys k and j
NextVertical == KeyK \/ KeyJ

SpecVertical == InitMotion /\ [][NextVertical]_vars

---------------------------------------------------------------------------
(* The buffer operations applied to arbitrary arguments: insert_char and   *)
(* remove_char are public methods of the TextAction trait, callable with   *)
(* any Position and any character.                                         *)

\* the characters of the buffers and the characters inserted
TextChars == {"a", EAcute, LF, CR}
ArgChars == {"q", EAcute, LF}

\* the positions: small columns and rows, and the column u16::MAX that
\* cursor.x - 1 wraps to (mod.rs:212)
ArgPositions ==
    {Position(x, y) : x \in (0..MaxPos) \cup {U16Mod - 1}, y \in 0..MaxPos}

InitText ==
    /\ \E text \in BoundedSeq(TextChars, MaxLen) : EditorNew(text) /\ h_orig = text
    /\ overflow_checks = FALSE
    /\ h_pc = "start"
    /\ h_pos \in ArgPositions
    /\ h_char \in ArgChars
    /\ TokIdle

\* self.insert_char(&h_pos, h_char)
ApplyInsert ==
    /\ h_pc = "start"
    /\ LET r == insert_char(file_text, h_pos, h_char)
       IN  file_text' = r.text /\ panicked' = r.panic
    /\ h_pc' = "inserted"
    /\ UNCHANGED <<cursor, mode, keyhistory, exit, command, theme_path, message_queue,
                   overflow_checks, saves, last_op, h_pos, h_char, h_orig, tokVars>>

\* self.remove_char(&h_pos), on the buffer as loaded or after the insert
ApplyRemove ==
    /\ h_pc \in {"start", "inserted"}
    /\ ~panicked
    /\ LET r == remove_char(file_text, h_pos)
       IN  file_text' = r.text /\ panicked' = r.panic
    /\ h_pc' = IF h_pc = "start" THEN "removed" ELSE "undone"
    /\ UNCHANGED <<cursor, mode, keyhistory, exit, command, theme_path, message_queue,
                   overflow_checks, saves, last_op, h_pos, h_char, h_orig, tokVars>>

NextText == ApplyInsert \/ ApplyRemove

SpecText == InitText /\ [][NextText]_vars

---------------------------------------------------------------------------
(* parse (text_colour.rs) *)

\* the order of the try_rule! calls, each rule with its SyntaxKind
RuleOrderIdentifierFirst ==
    <<[rule |-> "comment", kind |-> "Comment"],
      [rule |-> "literal", kind |-> "Literal"],
      [rule |-> "identifier", kind |-> "Identifier"],
      [rule |-> "keyword", kind |-> "Keyword"],
      [rule |-> "function", kind |-> "Function"],
      [rule |-> "types", kind |-> "Type"],
      [rule |-> "extra", kind |-> "Extra"],
      [rule |-> "delimiters", kind |-> "Delimiter"]>>

RuleOrder ==
    <<[rule |-> "comment", kind |-> "Comment"],
      [rule |-> "literal", kind |-> "Literal"],
      [rule |-> "keyword", kind |-> "Keyword"],
      [rule |-> "function", kind |-> "Function"],
      [rule |-> "types", kind |-> "Type"],
      [rule |-> "identifier", kind |-> "Identifier"],
      [rule |-> "extra", kind |-> "Extra"],
      [rule |-> "delimiters", kind |-> "Delimiter"]>>

\* the state of parse: text, input, tokens, and where it is
ParseState == [text |-> tk_text, input |-> tk_input, tokens |-> tokens, pc |-> tk_pc]

\* let (tok, rest) = input.split_at(len); tokens.push((tok, kind)); input = rest.
\* split_at panics unless len is a character boundary of input.  A token is the
\* slice: its text and the byte offset in text where it lies.
Emit(ps, len, kind) ==
    LET k == CharIndexAt(ps.input, len)
    IN  IF k = NoBoundary THEN [ps EXCEPT !.pc = "panic"]
        ELSE [ps EXCEPT
                 !.tokens = Append(ps.tokens,
                                   [text |-> SubSeq(ps.input, 1, k), kind |-> kind,
                                    at |-> ByteLen(ps.text) - ByteLen(ps.input)]),
                 !.input = SubSeq(ps.input, k + 1, Len(ps.input))]

IsWhitespaceChar(c) == c \in {" ", CR, LF}

\* input.find(|c| !c.is_whitespace()): the byte offset of the first character
\* that is no whitespace, NoBoundary for None
FirstNonWhitespace(input) ==
    LET idx == {i \in 1..Len(input) : ~IsWhitespaceChar(input[i])}
    IN  IF idx = {} THEN NoBoundary ELSE ByteLen(SubSeq(input, 1, MinOf(idx) - 1))

\* input.chars().next().unwrap_or_default().len_utf8(), of a character only one byte
UnknownLenOneByte(input) == 1

\* input.chars().next().unwrap_or_default().len_utf8()
UnknownLen(input) == IF input = <<>> THEN 1 ELSE Width(Head(input))

\* try_rule! that emits the matched span whatever its length
try_rule_any_span(ps, regex, kind) ==
    LET m == RegexFind(regex, ps.input)
    IN  IF m /= NoMatch /\ m.start = 0
        THEN [matched |-> TRUE, ps |-> Emit(ps, m.end, kind)]
        ELSE [matched |-> FALSE, ps |-> ps]

\* try_rule!(regex, kind): a match at offset 0 emits the span with the kind, or,
\* when the span is empty, the next character as Unknown; then `continue`
try_rule(ps, regex, kind) ==
    LET m == RegexFind(regex, ps.input)
    IN  IF m /= NoMatch /\ m.start = 0
        THEN IF m.end = 0
             THEN [matched |-> TRUE, ps |-> Emit(ps, UnknownLen(ps.input), "Unknown")]
             ELSE [matched |-> TRUE, ps |-> Emit(ps, m.end, kind)]
        ELSE [matched |-> FALSE, ps |-> ps]

\* the try_rule! calls from the i-th on, then the fallback of !matched_any
RECURSIVE TryRules(_, _, _)
TryRules(ps, rules, i) ==
    IF i > Len(RuleOrder) THEN Emit(ps, UnknownLen(ps.input), "Unknown")
    ELSE LET r == try_rule(ps, rules[RuleOrder[i].rule], RuleOrder[i].kind)
         IN  IF r.matched THEN r.ps ELSE TryRules(ps, rules, i + 1)

\* the else branch of the whitespace test without the push
TrailingWhitespaceDropped(ps) == [ps EXCEPT !.pc = "done"]

\* the else branch of the whitespace test: the rest of the line is one
\* Whitespace token, then break and return
TrailingWhitespace(ps) ==
    [ps EXCEPT !.tokens = Append(ps.tokens,
                                 [text |-> ps.input, kind |-> "Whitespace",
                                  at |-> ByteLen(ps.text) - ByteLen(ps.input)]),
               !.pc = "done"]

\* no line is being parsed yet
InitTok ==
    /\ EditorNew(<<>>)
    /\ overflow_checks = FALSE
    /\ HarnessIdle
    /\ TokIdle

\* parse(text) is called on a line, with the rules of a syntax file:
\* tokens = Vec::new(), input = text
ParseCall ==
    /\ tk_pc = "idle"
    /\ tk_rules' \in RuleSets
    /\ tk_text' \in BoundedSeq(TokChars, MaxLine)
    /\ tk_input' = tk_text'
    /\ tokens' = <<>>
    /\ tk_pc' = "loop"
    /\ UNCHANGED <<editorVars, harnessVars>>

\* the parse state becomes ps
ParseTo(ps) ==
    /\ tk_input' = ps.input
    /\ tokens' = ps.tokens
    /\ tk_pc' = ps.pc
    /\ UNCHANGED <<tk_rules, tk_text, editorVars, harnessVars>>

\* while !input.is_empty() fails: return tokens
ParseReturn ==
    /\ tk_pc = "loop"
    /\ tk_input = <<>>
    /\ ParseTo([ParseState EXCEPT !.pc = "done"])

\* an iteration that finds leading whitespace before something else
ParseWhitespace ==
    /\ tk_pc = "loop"
    /\ tk_input /= <<>>
    /\ FirstNonWhitespace(tk_input) > 0
    /\ ParseTo(Emit(ParseState, FirstNonWhitespace(tk_input), "Whitespace"))

\* an iteration that finds nothing but whitespace
ParseTrailingWhitespace ==
    /\ tk_pc = "loop"
    /\ tk_input /= <<>>
    /\ FirstNonWhitespace(tk_input) = NoBoundary
    /\ ParseTo(TrailingWhitespace(ParseState))

\* an iteration on input that starts with a character that is no whitespace
ParseToken ==
    /\ tk_pc = "loop"
    /\ tk_input /= <<>>
    /\ FirstNonWhitespace(tk_input) = 0
    /\ ParseTo(TryRules(ParseState, tk_rules, 1))

NextTok == ParseCall \/ ParseReturn \/ ParseWhitespace \/ ParseTrailingWhitespace \/ ParseToken

SpecTok == InitTok /\ [][NextTok]_vars

\* parse runs to its return: nothing suspends the call or an iteration of the
\* loop.  The last conjunct is WF_vars(ParseToken) with ENABLED <<ParseToken>>_vars
\* written out: the iteration can run when its guard holds, and it always
\* pushes a token or panics.
SpecTokFair ==
    /\ SpecTok
    /\ WF_vars(ParseCall)
    /\ WF_vars(ParseReturn)
    /\ WF_vars(ParseWhitespace)
    /\ WF_vars(ParseTrailingWhitespace)
    /\ \/ []<>~(tk_pc = "loop" /\ tk_input /= <<>> /\ FirstNonWhitespace(tk_input) = 0)
       \/ []<><<ParseToken>>_vars

---------------------------------------------------------------------------
(* Properties of the tokenizer *)

RECURSIVE Concat(_)
\* the texts of the tokens, concatenated
Concat(toks) == IF toks = <<>> THEN <<>> ELSE Head(toks).text \o Concat(Tail(toks))

\* the bytes of text no token covers yet
Uncovered == ByteLen(tk_text) - ByteLen(Concat(tokens))

\* the bytes of text the loop has consumed
Consumed ==
    IF tk_pc = "done" THEN ByteLen(Concat(tokens)) ELSE ByteLen(tk_text) - ByteLen(tk_input)

\* the remaining slice the iteration that emitted token i found
RestAt(i) ==
    LET k == CharIndexAt(tk_text, tokens[i].at)
    IN  SubSeq(tk_text, k + 1, Len(tk_text))

\* the byte offset where the iteration after token i starts
NextAt(i) == IF i < Len(tokens) THEN tokens[i + 1].at ELSE Consumed

StartsWithNonWhitespace(rest) == rest /= <<>> /\ ~IsWhitespaceChar(rest[1])

\* the fixed priority order of the rules, each with the kind of its tokens
PriorityOrder ==
    <<<<"comment", "Comment">>, <<"literal", "Literal">>, <<"keyword", "Keyword">>,
      <<"function", "Function">>, <<"types", "Type">>, <<"identifier", "Identifier">>,
      <<"extra", "Extra">>, <<"delimiters", "Delimiter">>>>

\* the end, in bytes, of the rule's match at offset 0 of rest; -1 when it has none there
SpanAtZero(rule, rest) ==
    LET m == RegexFind(tk_rules[rule], rest)
    IN  IF m /= NoMatch /\ m.start = 0 THEN m.end ELSE -1

\* the place in the priority order of the first rule that matches at offset 0, 0 for none
Winner(rest) ==
    LET ok == {n \in 1..Len(PriorityOrder) : SpanAtZero(PriorityOrder[n][1], rest) /= -1}
    IN  IF ok = {} THEN 0 ELSE MinOf(ok)

\* the first b bytes of rest
Prefix(rest, b) == SubSeq(rest, 1, CharIndexAt(rest, b))

\* C1: the tokens parse returns are consecutive slices of the line in order, and
\* their texts concatenated are the line; parse does not fail
LosslessTokenization ==
    /\ tk_pc /= "panic"
    /\ \A i \in 1..Len(tokens) :
           /\ tokens[i].at = IF i = 1 THEN 0 ELSE tokens[i - 1].at + ByteLen(tokens[i - 1].text)
           /\ tokens[i].text = Prefix(RestAt(i), ByteLen(tokens[i].text))
    /\ tk_pc = "loop" => Concat(tokens) \o tk_input = tk_text
    /\ tk_pc = "done" => Concat(tokens) = tk_text

\* parse has returned at least three tokens, a two-byte one and a whitespace one among them
LosslessTokenizationWitness ==
    /\ tk_pc = "done"
    /\ Len(tokens) >= 3
    /\ \E i \in 1..Len(tokens) : tokens[i].text = <<EAcute>>
    /\ \E i \in 1..Len(tokens) : tokens[i].kind = "Whitespace"
    /\ Concat(tokens) = tk_text

\* C2 as stated: the first rule in priority order that matches at offset 0 of the
\* remaining slice decides the token: its whole matched span, with its kind
RulePriorityEverySpan ==
    \A i \in 1..Len(tokens) :
        LET rest == RestAt(i)
            w == Winner(rest)
        IN  (StartsWithNonWhitespace(rest) /\ w /= 0)
            => /\ tokens[i].kind = PriorityOrder[w][2]
               /\ tokens[i].text = Prefix(rest, SpanAtZero(PriorityOrder[w][1], rest))

\* C2 amended: the first rule in priority order that matches at offset 0 decides
\* the token, and when its span is not empty the token is the whole span with
\* the rule's kind, also when a later rule matches too
RulePriority ==
    \A i \in 1..Len(tokens) :
        LET rest == RestAt(i)
            w == Winner(rest)
        IN  (StartsWithNonWhitespace(rest) /\ w /= 0
                 /\ SpanAtZero(PriorityOrder[w][1], rest) > 0)
            => /\ tokens[i].kind = PriorityOrder[w][2]
               /\ tokens[i].text = Prefix(rest, SpanAtZero(PriorityOrder[w][1], rest))

\* a reserved word before a parenthesis, which the function rule and the
\* identifier rule match too, came out a Keyword, and the parenthesis a Delimiter
RulePriorityWitness ==
    /\ tk_pc = "done"
    /\ Len(tokens) = 2
    /\ tokens[1].kind = "Keyword"
    /\ SpanAtZero("function", RestAt(1)) > 0
    /\ SpanAtZero("identifier", RestAt(1)) > 0
    /\ tokens[2].kind = "Delimiter"

\* what the Unknown fallback emits for the remaining slice of token i: the next
\* character alone, as Unknown, and the loop goes on right after it
OneUnknownCharacter(i) ==
    /\ tokens[i].kind = "Unknown"
    /\ tokens[i].text = <<Head(RestAt(i))>>
    /\ NextAt(i) = tokens[i].at + Width(Head(RestAt(i)))

\* C3 as stated: when no rule matches at offset 0, or a rule matches there with
\* an empty span, the token is the next character alone, as Unknown
UnknownFallbackAnyRule ==
    /\ tk_pc /= "panic"
    /\ \A i \in 1..Len(tokens) :
           LET rest == RestAt(i)
           IN  (/\ StartsWithNonWhitespace(rest)
                /\ \/ Winner(rest) = 0
                   \/ \E n \in 1..Len(PriorityOrder) : SpanAtZero(PriorityOrder[n][1], rest) = 0)
               => OneUnknownCharacter(i)

\* C3 amended: when no rule matches at offset 0, or the first rule in priority
\* order that matches there has an empty span, the token is the next character
\* alone (one scalar, not one byte), as Unknown, and parse advances by it
UnknownFallback ==
    /\ tk_pc /= "panic"
    /\ \A i \in 1..Len(tokens) :
           LET rest == RestAt(i)
               w == Winner(rest)
           IN  (/\ StartsWithNonWhitespace(rest)
                /\ \/ w = 0
                   \/ w /= 0 /\ SpanAtZero(PriorityOrder[w][1], rest) = 0)
               => OneUnknownCharacter(i)

\* a two-byte character came out Unknown, alone, after a rule matched the empty
\* string at it, and parse went on after it
UnknownFallbackWitness ==
    /\ tk_pc = "done"
    /\ \E i \in 1..Len(tokens) :
           /\ tokens[i].text = <<EAcute>>
           /\ tokens[i].kind = "Unknown"
           /\ Winner(RestAt(i)) /= 0
           /\ SpanAtZero(PriorityOrder[Winner(RestAt(i))][1], RestAt(i)) = 0
           /\ Len(tokens) > i

\* C4: every iteration of the loop leaves fewer bytes of the line uncovered and
\* does not fail, and parse returns
TokenizerTotality ==
    /\ [][(tk_pc = "loop" /\ tk_input /= <<>>)
          => (tk_pc' /= "panic" /\ Uncovered' < Uncovered)]_vars
    /\ <>(tk_pc = "done")

\* parse has returned for a rule set with a rule that matches the empty string,
\* on a line where that rule decided every token
TokenizerTotalityWitness ==
    /\ tk_pc = "done"
    /\ tk_rules = StarSyntax
    /\ Len(tokens) >= 3
    /\ \A i \in 1..Len(tokens) :
           /\ tokens[i].kind = "Unknown"
           /\ Winner(RestAt(i)) /= 0

---------------------------------------------------------------------------
(* Properties of the buffer and the cursor *)

Min(a, b) == IF a <= b THEN a ELSE b

\* s without its k-th character
RemoveAt(s, k) == SubSeq(s, 1, k - 1) \o SubSeq(s, k + 1, Len(s))

\* C5: in every state reachable by key events the offset get_byte_offset computes
\* for the cursor is at most the buffer's byte length, and an insert_char at the
\* cursor (a character or a line feed typed in Insert mode) does not fail
OutOfRangePositionNeverFails ==
    /\ ~panicked => get_byte_offset(file_text, cursor) <= ByteLen(file_text)
    /\ last_op.op \in {"Insert:char", "Insert:enter"} => ~panicked

\* C6: insert_char(p, c) followed by remove_char(p) succeeds and restores the
\* buffer text as it was before the insert
InsertDeleteInverse ==
    /\ h_pc \in {"inserted", "undone"} => ~panicked
    /\ h_pc = "undone" => file_text = h_orig

\* C7: remove_char(pos) never fails; it changes nothing on an empty buffer, and
\* removes from a non-empty one exactly the character at the computed offset when
\* the offset is inside the buffer, the final character otherwise
DeleteSemantics ==
    h_pc = "removed" =>
        /\ ~panicked
        /\ h_orig = <<>> => file_text = <<>>
        /\ h_orig /= <<>> =>
               LET offset == get_byte_offset(h_orig, h_pos)
               IN  IF offset >= ByteLen(h_orig)
                   THEN file_text = SubSeq(h_orig, 1, Len(h_orig) - 1)
                   ELSE \E k \in 1..Len(h_orig) :
                            /\ ByteLen(SubSeq(h_orig, 1, k - 1)) = offset
                            /\ file_text = RemoveAt(h_orig, k)

\* the rest of the editor a cursor motion leaves alone
MotionFrame ==
    /\ file_text' = file_text
    /\ mode' = mode
    /\ exit' = exit
    /\ command' = command
    /\ ~panicked'

\* C8: move_cursor(Up) with cursor.y = 0 and move_cursor(Down) with
\* cursor.y >= lineCount()+1 leave the cursor, the buffer and the mode unchanged
VerticalClamp ==
    [][(\/ KeyK /\ cursor.y = 0
        \/ KeyJ /\ cursor.y >= lineCount(file_text) + 1)
       => cursor' = cursor /\ MotionFrame]_vars

\* Down was pressed on a row at or past lineCount()+1 and the cursor stayed
VerticalClampWitness ==
    /\ last_op.op = "Down:at_end"
    /\ last_op.was = cursor
    /\ cursor.y >= lineCount(file_text) + 1
    /\ ~panicked

\* C9 as stated: after any move_cursor(Up) or move_cursor(Down) the column is
\* min(previousX, character length of the line at the new cursor.y)
ColumnClampEveryMove ==
    [][(KeyK \/ KeyJ)
       => cursor'.x = Min(cursor.x, Len(LineAt(file_text, cursor'.y)))]_vars

\* C9 amended: after a vertical move that is not a no-op at the boundary (Up from
\* y > 0, Down from y < lineCount()+1) the column is min(previousX, character
\* length of the line at the new cursor.y)
ColumnClamp ==
    [][(\/ KeyK /\ cursor.y > 0
        \/ KeyJ /\ cursor.y < lineCount(file_text) + 1)
       => /\ cursor'.x = Min(cursor.x, Len(LineAt(file_text, cursor'.y)))
          /\ MotionFrame]_vars

\* a vertical move onto a shorter line has pulled the column back
ColumnClampWitness ==
    /\ last_op.op \in {"Up:moved", "Down:moved"}
    /\ cursor.y /= last_op.was.y
    /\ cursor.x < last_op.was.x
    /\ cursor.x = Len(LineAt(file_text, cursor.y))
    /\ ~panicked

\* C10: move_cursor(Left) does not fail; it is a no-op at (0,0), moves from column 0
\* of a line y > 0 to the end of line y-1, and otherwise decrements x
LeftMotion ==
    [][KeyH
       => /\ ~panicked'
          /\ cursor' = IF cursor.x = 0 /\ cursor.y = 0 THEN cursor
                       ELSE IF cursor.x = 0
                            THEN Position(Len(LineAt(file_text, cursor.y - 1)), cursor.y - 1)
                            ELSE Position(cursor.x - 1, cursor.y)]_vars

\* C11: move_cursor(Right) with cursor.x at or past the character length of the
\* cursor's line moves the cursor to (0, y+1), past the last content line too;
\* otherwise it increments x and leaves y; nothing else changes
RightMotion ==
    [][KeyL
       => /\ cursor' = IF cursor.x >= Len(LineAt(file_text, cursor.y))
                       THEN Position(0, cursor.y + 1)
                       ELSE Position(cursor.x + 1, cursor.y)
          /\ MotionFrame]_vars

\* Right at the end of a line with a two-byte character has moved the cursor to
\* column 0 of a row past the last content line
RightMotionWitness ==
    /\ last_op.op = "Right:next_line"
    /\ \E i \in 1..Len(LineAt(file_text, last_op.was.y)) :
           LineAt(file_text, last_op.was.y)[i] = EAcute
    /\ last_op.was.x = Len(LineAt(file_text, last_op.was.y))
    /\ cursor = Position(0, last_op.was.y + 1)
    /\ cursor.y >= lineCount(file_text)
    /\ ~panicked

\* the classes of the default motion pattern
PatternClasses == {"Z", "P", "N", "L", "S"}

RECURSIVE RunLength(_, _)
\* the number of leading characters of s of class cls
RunLength(s, cls) ==
    IF s /= <<>> /\ Category(Head(s)) = cls THEN 1 + RunLength(Tail(s), cls) ELSE 0

\* the length of the run of same-class characters that starts s, 0 when s is
\* empty or starts with a character of no class
LeadingRun(s) ==
    IF s /= <<>> /\ Category(Head(s)) \in PatternClasses
    THEN RunLength(s, Category(Head(s)))
    ELSE 0

\* C12: 'e' (move_to_end_of_pat with the default pattern) advances the column by
\* the length of the run of same-class characters that starts at the cursor's
\* character, and leaves the cursor where it is when that character is of no
\* class or the cursor is at the line's end; on "ab cd" from (0,0) it gives x = 2
EndOfPatternMotion ==
    [][KeyE
       => LET line == LineAt(file_text, cursor.y)
              rest == SubSeq(line, Min(cursor.x, Len(line)) + 1, Len(line))
          IN  /\ ~panicked'
              /\ cursor' = Position(cursor.x + LeadingRun(rest), cursor.y)
              /\ (file_text = ExampleLine /\ cursor = Position(0, 0)) => cursor'.x = 2]_vars

RECURSIVE RunLengthBack(_, _)
\* the number of trailing characters of s of class cls
RunLengthBack(s, cls) ==
    IF s /= <<>> /\ Category(s[Len(s)]) = cls
    THEN 1 + RunLengthBack(SubSeq(s, 1, Len(s) - 1), cls)
    ELSE 0

\* the length of the run of same-class characters that ends s, 0 when s is empty
\* or ends with a character of no class
TrailingRun(s) ==
    IF s /= <<>> /\ Category(s[Len(s)]) \in PatternClasses
    THEN RunLengthBack(s, Category(s[Len(s)]))
    ELSE 0

\* C13: 'b' (move_to_start_of_pat with the default pattern) takes from the column
\* the length of the run of same-class characters that ends just before the
\* cursor, not below 0, and leaves the cursor where it is when the character
\* before it is of no class or the cursor is at column 0; on "ab cd" from (2,0)
\* it gives x = 0
StartOfPatternMotion ==
    [][KeyB
       => LET line == LineAt(file_text, cursor.y)
              before == SubSeq(line, 1, Min(cursor.x, Len(line)))
              run == TrailingRun(before)
          IN  /\ ~panicked'
              /\ cursor' = Position(IF run > cursor.x THEN 0 ELSE cursor.x - run, cursor.y)
              /\ (file_text = ExampleLine /\ cursor = Position(2, 0)) => cursor'.x = 0]_vars

\* C14: over a fixed buffer, from cursor (0,0), after any sequence of the motions
\* Up, Down, Left, Right, 'e' and 'b' the column is at most the character length
\* of the line at cursor.y (0 for a row beyond the content), and 'e' and 'b'
\* never change cursor.y
PositionInvariant ==
    /\ [](0 <= cursor.x /\ cursor.x <= Len(LineAt(file_text, cursor.y)))
    /\ [][(KeyE \/ KeyB) => cursor'.y = cursor.y]_vars

\* 'e' has moved the cursor to the end of a line with a two-byte character, on a
\* row below the first, reached by the other motions
PositionInvariantWitness ==
    /\ last_op.op = "e"
    /\ cursor.y > 0
    /\ cursor.y = last_op.was.y
    /\ cursor.x > last_op.was.x
    /\ cursor.x = Len(LineAt(file_text, cursor.y))
    /\ \E i \in 1..cursor.x : LineAt(file_text, cursor.y)[i] = EAcute
    /\ ~panicked

\* the lines of text other than line y are the lines of old, in the same places
OtherLinesKept(old, text, y) ==
    \A i \in 0..(lineCount(old) + lineCount(text)) :
        i /= y => LineAt(text, i) = LineAt(old, i)

\* C15: in Insert mode with cursor (x, y) a character key c makes c the character
\* at column x of line y, the rest of the buffer unchanged, and leaves the
\* cursor at (x+1, y), right after the inserted character; it does not fail
InsertTyping ==
    [][InsertChar
       => /\ ~panicked'
          /\ LET c == keyhistory'[1].c
                 line == LineAt(file_text, cursor.y)
             IN  /\ cursor.x <= Len(line)
                 /\ LineAt(file_text', cursor.y)
                        = SubSeq(line, 1, cursor.x) \o <<c>> \o SubSeq(line, cursor.x + 1, Len(line))
                 /\ OtherLinesKept(file_text, file_text', cursor.y)
                 /\ Len(file_text') = Len(file_text) + 1
                 /\ cursor' = Position(cursor.x + 1, cursor.y)
                 /\ mode' = "Insert"]_vars

\* C16: in Insert mode with cursor (x, y) Backspace does not fail; with x > 0 it
\* removes the character at column x-1 of line y and leaves the cursor at
\* (x-1, y); with x = 0 and y > 0 it removes the separator that ends line y-1,
\* joining the two lines, and leaves the cursor where the separator was
InsertBackspaceRemovesBefore ==
    [][InsertBackspace
       => /\ ~panicked'
          /\ LET line == LineAt(file_text, cursor.y)
                 above == LineAt(file_text, cursor.y - 1)
             IN  /\ (cursor.x > 0 /\ cursor.x <= Len(line))
                        => /\ LineAt(file_text', cursor.y) = RemoveAt(line, cursor.x)
                           /\ OtherLinesKept(file_text, file_text', cursor.y)
                           /\ cursor' = Position(cursor.x - 1, cursor.y)
                 /\ (cursor.x = 0 /\ cursor.y > 0 /\ cursor.y < lineCount(file_text))
                        => /\ LineAt(file_text', cursor.y - 1) = above \o line
                           /\ \A i \in 0..lineCount(file_text) :
                                  /\ i < cursor.y - 1 => LineAt(file_text', i) = LineAt(file_text, i)
                                  /\ i >= cursor.y => LineAt(file_text', i) = LineAt(file_text, i + 1)
                           /\ cursor' = Position(Len(above), cursor.y - 1)
          /\ mode' = "Insert"]_vars

\* the key event before this one was the key 'g'
PreviousKeyIsG == keyhistory /= <<>> /\ keyhistory[Len(keyhistory)] = KChar("g")

\* C17: in Normal mode 'g' puts the cursor at (0,0) when the key event before it
\* was 'g' too, and leaves the cursor where it is otherwise (the first key event
\* included); buffer and mode stay and the 'g' is the last key of the history
\* afterwards, and no key event is handled without an entry in the history
GoToStartCompound ==
    /\ [][KeyG
          => /\ cursor' = IF PreviousKeyIsG THEN Position(0, 0) ELSE cursor
             /\ MotionFrame
             /\ keyhistory'[Len(keyhistory')] = KChar("g")]_vars
    /\ [][~panicked' => keyhistory' /= <<>>]_vars

\* the second of two 'g' presses has taken the cursor from elsewhere to (0,0)
GoToStartCompoundWitness ==
    /\ last_op.op = "g:second"
    /\ last_op.was /= Position(0, 0)
    /\ cursor = Position(0, 0)
    /\ keyhistory = <<KChar("g")>>
    /\ mode = "Normal"
    /\ ~panicked

\* the rows of text are those of old with one empty line put in at row y
EmptyLineOpenedAt(old, text, y) ==
    \A r \in 0..(MaxRow + MaxLen + 2) :
        LineAt(text, r) = IF r < y THEN LineAt(old, r)
                          ELSE IF r = y THEN <<>>
                          ELSE LineAt(old, r - 1)

\* C18: in Normal mode 'o' never fails, puts an empty line directly after the
\* cursor's row, whichever row that is, moves the cursor to column 0 of the new
\* row and enters Insert mode
OpenLineBelow ==
    [][KeyO
       => /\ ~panicked'
          /\ EmptyLineOpenedAt(file_text, file_text', cursor.y + 1)
          /\ cursor' = Position(0, cursor.y + 1)
          /\ mode' = "Insert"]_vars

\* C19: in Normal mode 'O' never fails, puts an empty line at the cursor's row,
\* row 0 included, so that the former line of that row is the next one, leaves
\* the cursor at column 0 of that row and enters Insert mode
OpenLineAbove ==
    [][KeyBigO
       => /\ ~panicked'
          /\ EmptyLineOpenedAt(file_text, file_text', cursor.y)
          /\ cursor' = Position(0, cursor.y)
          /\ mode' = "Insert"]_vars

\* C20: in Normal mode 'A' sets the column to the number of characters of the
\* cursor's line, lines with characters of several bytes included, keeps the
\* row and the buffer and enters Insert mode
AppendAtEndOfLine ==
    [][KeyA
       => /\ ~panicked'
          /\ cursor' = Position(Len(LineAt(file_text, cursor.y)), cursor.y)
          /\ file_text' = file_text
          /\ mode' = "Insert"]_vars

---------------------------------------------------------------------------
(* Properties of the modes and the commands *)

QInserted(old, text) ==
    \E k \in 0..Len(old) : text = SubSeq(old, 1, k) \o <<"q">> \o SubSeq(old, k + 1, Len(old))

\* C22: the exit flag is unset at the start; a step changes it only by setting
\* it, and only for the key 'q' in Normal mode or for Enter in Command mode with
\* the command q or x; no key of Insert or Visual mode sets it, and a 'q' typed
\* in Insert mode is put into the buffer
HaltOnlyFromNormalOrCommand ==
    /\ ~exit
    /\ [][exit' /= exit
          => (/\ exit'
              /\ \/ (mode = "Normal" /\ keyhistory' = <<KChar("q")>>)
                 \/ (mode = "Command" /\ keyhistory' = <<KEnter>>
                                      /\ Trim(command) \in {<<"q">>, <<"x">>}))]_vars
    /\ [][(mode = "Insert" \/ mode = "Visual") => exit' = FALSE]_vars
    /\ [][(InsertChar /\ keyhistory' = <<KChar("q")>> /\ ~panicked')
          => QInserted(file_text, file_text')]_vars

\* a 'q' typed in Insert mode is in the buffer and the session goes on
HaltOnlyFromNormalOrCommandWitness ==
    /\ last_op.op = "Insert:char"
    /\ keyhistory = <<KChar("q")>>
    /\ mode = "Insert"
    /\ \E k \in 1..Len(file_text) : file_text[k] = "q"
    /\ ~exit
    /\ ~panicked

\* C23: when the save of the command w or x fails, the handler returns with the
\* failure reported, buffer and cursor as they were and the editor in a mode
\* of its own: the process goes on
FileWriteFailureRecoverable ==
    [][(CommandEnter /\ Trim(command) \in {<<"w">>, <<"x">>} /\ saves' = <<>>)
       => /\ ~panicked'
          /\ message_queue'.level = "Error"
          /\ file_text' = file_text
          /\ cursor' = cursor
          /\ (mode' = "Normal" \/ mode' = "Command")]_vars

\* C24: Esc in Insert, Visual or Command mode leads to Normal mode with an empty
\* command, and leaves the buffer, the cursor and the exit flag as they are,
\* without a save and without a failure
EscapeCancels ==
    [][(InsertEsc \/ CommandEsc \/ (VisualLeave /\ keyhistory' = <<KEsc>>))
       => /\ mode' = "Normal"
          /\ command' = <<>>
          /\ file_text' = file_text
          /\ cursor' = cursor
          /\ exit' = exit
          /\ saves' = <<>>
          /\ ~panicked']_vars

\* Esc has left Command mode: Normal mode, no command, nothing saved, on a
\* buffer and a cursor that are not the initial ones
EscapeCancelsWitness ==
    /\ last_op.op = "Command:esc"
    /\ keyhistory = <<KEsc>>
    /\ mode = "Normal"
    /\ command = <<>>
    /\ saves = <<>>
    /\ file_text /= <<>>
    /\ cursor /= Position(0, 0)
    /\ ~exit
    /\ ~panicked

\* C26: the command is empty whenever the mode is Normal, Insert or Visual: it
\* is not empty in Command mode only
CommandOnlyInCommandMode == mode /= "Command" => command = <<>>

\* a command has been typed in Command mode and the next key has cleared it
\* on the way back to Normal mode
CommandOnlyInCommandModeWitness ==
    /\ last_op.op \in {"Command:enter", "Command:esc"}
    /\ mode = "Normal"
    /\ command = <<>>
    /\ theme_path = <<>>
    /\ message_queue = Error(<<"a", "a", "a", "a">>)
    /\ ~panicked

---------------------------------------------------------------------------
(* Properties of the vertical motions *)

\* C25 as stated: with Up and Down alone, from row 0 of a buffer with content,
\* the cursor is never further than one row past the last content line:
\* cursor.y <= lineCount
EndOfFileRowBoundOneRow == lineCount(file_text) >= 1 => cursor.y <= lineCount(file_text)

\* C25 amended: with Up and Down alone, from row 0, the cursor is never further than two
\* rows past the last content line: cursor.y <= lineCount + 1, the row at which
\* Down stops
EndOfFileRowBound == cursor.y <= lineCount(file_text) + 1

\* Down has taken the cursor to the second row past the last line of a buffer
\* with content
EndOfFileRowBoundWitness ==
    /\ last_op.op = "Down:moved"
    /\ lineCount(file_text) >= 1
    /\ cursor.y = lineCount(file_text) + 1
    /\ ~panicked

=============================================================================
